---- MODULE Spec2Model ----
(***************************************************************************)
(* Trading engine of the coordinator's orderbook                           *)
(* (coordinator/src/orderbook/trading.rs): the matching algorithm          *)
(* (sort_orders, match_order), the per-item tasks spawned by the trading   *)
(* loop (process_new_order, process_pending_match) and notify_trader.      *)
(***************************************************************************)
EXTENDS Integers, Sequences, FiniteSets, TLC

VARIABLES
    \* ---- inputs and outputs of the pure matching functions ----
    m_phase,        \* "input" | "matched" | "sorted"
    m_order,        \* the taker order handed to match_order
    m_candidates,   \* the Vec<Order> handed to match_order / sort_orders
    m_is_long,      \* the is_long argument of sort_orders
    m_result,       \* Result<Option<MatchParams>> of match_order
    m_sorted,       \* the Vec<Order> returned by sort_orders
    \* ---- the trading engine ----
    queue,          \* the mpsc channel of TradingMessages, in FIFO order
    loop,           \* the trading loop: "running" | "failed" | "ended"
    authenticated_users, \* the loop's HashMap: trader -> channel (0: no entry)
    tasks,          \* the tasks spawned by the loop, in spawn order
    db_orders,      \* the orders table: order id -> row
    db_matches,     \* the matches table, in insertion order
    channels,       \* the traders' notification channels, by channel id
    price_feed,     \* the orders published on tx_price_feed
    submitted,      \* number of orders submitted so far
    expired,        \* ids of the orders whose expiry has passed
    failures        \* number of persistence failures so far

m_vars == <<m_phase, m_order, m_candidates, m_is_long, m_result, m_sorted>>

e_vars == <<queue, loop, authenticated_users, tasks, db_orders, db_matches, channels,
            price_feed, submitted, expired, failures>>

vars == <<m_phase, m_order, m_candidates, m_is_long, m_result, m_sorted,
          queue, loop, authenticated_users, tasks, db_orders, db_matches, channels,
          price_feed, submitted, expired, failures>>

-----------------------------------------------------------------------------
(* Bounds *)

\* Limit orders resting in the order store when the engine starts; messages
\* (NewOrder, NewUser) sent to the engine in one run, and how many of them
\* are orders and registrations; expiries passing and persistence failures
\* in one run; capacity of a trader's notification channel.
MaxResting == 1
MaxItems == 2
MaxOrders == 2
MaxUsers == 2
MaxExpired == 1
MaxFailures == 1
ChannelCapacity == 1

\* The buffer of the trading messages channel.
TRADING_MESSAGES_BUFFER_SIZE == 100

\* Longest candidate list handed to match_order.
MaxCandidates == 3

\* Longest list, highest price and latest timestamp handed to sort_orders.
MaxSortLen == 3
MaxSortPrice == 2
MaxSortTimestamp == 2

-----------------------------------------------------------------------------
(* Data model *)

Traders == {"alice", "bob"}

Directions == {"Long", "Short"}

OrderTypes == {"Limit", "Market"}

opposite(direction) == IF direction = "Long" THEN "Short" ELSE "Long"

\* The hard-coded oracle public key of match_order.
oracle_pk == "16f88cf7"

\* orderbook_commons::get_expiry_timestamp(now): one value per matching run.
expiry_timestamp == "next_expiry"

Order(id, trader_id, direction, order_type, price, quantity, timestamp, order_state, order_reason) ==
    [id |-> id, trader_id |-> trader_id, direction |-> direction,
     order_type |-> order_type, price |-> price, quantity |-> quantity,
     timestamp |-> timestamp, order_state |-> order_state,
     order_reason |-> order_reason]

-----------------------------------------------------------------------------
(* sort_orders *)

\* The comparator closure handed to sort_by: "Less", "Equal" or "Greater".
cmp(x, y) == IF x < y THEN "Less" ELSE IF x = y THEN "Equal" ELSE "Greater"

compare_mutant_latest_first(a, b, is_long) ==
    IF cmp(a.price, b.price) = "Equal"
    THEN cmp(b.timestamp, a.timestamp)
    ELSE IF is_long THEN cmp(a.price, b.price) ELSE cmp(b.price, a.price)

compare_mutant_always_asc(a, b, is_long) ==
    IF cmp(a.price, b.price) = "Equal"
    THEN cmp(a.timestamp, b.timestamp)
    ELSE cmp(a.price, b.price)

compare_mutant_reverse_ties(a, b, is_long) ==
    IF is_long
    THEN IF a.price = b.price THEN cmp(a.timestamp, b.timestamp)
         ELSE cmp(a.price, b.price)
    ELSE IF a.price = b.price THEN cmp(b.timestamp, a.timestamp)
         ELSE cmp(b.price, a.price)

compare(a, b, is_long) ==
    IF cmp(a.price, b.price) = "Equal"
    THEN cmp(a.timestamp, b.timestamp)
    ELSE IF is_long THEN cmp(a.price, b.price) ELSE cmp(b.price, a.price)

\* Vec::sort_by is a stable sort: an element is placed behind every element
\* that does not compare Greater than it.
RECURSIVE insert_sorted(_, _, _)
insert_sorted(sorted, o, is_long) ==
    IF sorted = <<>> THEN <<o>>
    ELSE IF compare(Head(sorted), o, is_long) = "Greater"
         THEN <<o>> \o sorted
         ELSE <<Head(sorted)>> \o insert_sorted(Tail(sorted), o, is_long)

RECURSIVE sort_by(_, _, _)
sort_by(orders, sorted, is_long) ==
    IF orders = <<>> THEN sorted
    ELSE sort_by(Tail(orders), insert_sorted(sorted, Head(orders), is_long), is_long)

sort_orders(orders, is_long) == sort_by(orders, <<>>, is_long)

-----------------------------------------------------------------------------
(* match_order *)

filter_mutant_keep_all(order, orders) == orders

\* .filter(|o| !o.direction.eq(&order.direction))
filter_opposite(order, orders) ==
    LET keep(o) == o.direction # order.direction
    IN  SelectSeq(orders, keep)

\* The while loop: take the first order, subtract its quantity, stop as soon
\* as the remaining quantity is not positive.
RECURSIVE take_orders(_, _, _)
take_orders(orders, remaining_quantity, matched_orders) ==
    IF orders = <<>> THEN matched_orders
    ELSE LET matched_order == Head(orders)
             remaining == remaining_quantity - matched_order.quantity
         IN  IF remaining <= 0
             THEN Append(matched_orders, matched_order)
             ELSE take_orders(Tail(orders), remaining,
                              Append(matched_orders, matched_order))

Match(order_id, quantity, pubkey, execution_price) ==
    [order_id |-> order_id, quantity |-> quantity, pubkey |-> pubkey,
     execution_price |-> execution_price]

FilledWith(order_id, matches) ==
    [order_id |-> order_id, expiry_timestamp |-> expiry_timestamp,
     oracle_pk |-> oracle_pk, matches |-> matches]

TraderMatchParams(trader_id, filled_with) ==
    [trader_id |-> trader_id, filled_with |-> filled_with]

maker_match_mutant_maker_quantity(order, maker_order) ==
    TraderMatchParams(maker_order.trader_id,
        FilledWith(maker_order.id,
            <<Match(order.id, maker_order.quantity, order.trader_id, maker_order.price)>>))

\* The maker's view: one Match naming the taker's order.
maker_match(order, maker_order) ==
    TraderMatchParams(maker_order.trader_id,
        FilledWith(maker_order.id,
            <<Match(order.id, order.quantity, order.trader_id, maker_order.price)>>))

taker_match_mutant_maker_quantity(order, matched_orders) ==
    TraderMatchParams(order.trader_id,
        FilledWith(order.id,
            [i \in DOMAIN matched_orders |->
                Match(matched_orders[i].id, matched_orders[i].quantity,
                      matched_orders[i].trader_id, matched_orders[i].price)]))

\* The taker's view: one Match per maker order.
taker_match(order, matched_orders) ==
    TraderMatchParams(order.trader_id,
        FilledWith(order.id,
            [i \in DOMAIN matched_orders |->
                Match(matched_orders[i].id, order.quantity,
                      matched_orders[i].trader_id, matched_orders[i].price)]))

MatchParams(order, matched_orders) ==
    [taker_match |-> taker_match(order, matched_orders),
     makers_matches |-> [i \in DOMAIN matched_orders |->
                            maker_match(order, matched_orders[i])]]

\* Result<Option<MatchParams>>: tag "Err", "None" or "Some"; value holds the
\* MatchParams of "Some".
ResultErr == [tag |-> "Err", value |-> <<>>]
ResultNone == [tag |-> "None", value |-> <<>>]
ResultSome(match_params) == [tag |-> "Some", value |-> <<match_params>>]

match_order_mutant_limit(order, opposite_direction_orders) ==
    LET orders == sort_orders(filter_opposite(order, opposite_direction_orders),
                              order.direction = "Long")
        matched_orders == take_orders(orders, order.quantity, <<>>)
    IN  IF Len(matched_orders) > 1 THEN ResultErr
        ELSE IF matched_orders = <<>> THEN ResultNone
        ELSE ResultSome(MatchParams(order, matched_orders))

match_order_mutant_multi(order, opposite_direction_orders) ==
    IF order.order_type = "Limit" THEN ResultNone
    ELSE LET orders == sort_orders(filter_opposite(order, opposite_direction_orders),
                                   order.direction = "Long")
             matched_orders == take_orders(orders, order.quantity, <<>>)
         IN  IF matched_orders = <<>> THEN ResultNone
             ELSE ResultSome(MatchParams(order, matched_orders))

match_order(order, opposite_direction_orders) ==
    IF order.order_type = "Limit" THEN ResultNone
    ELSE LET orders == sort_orders(filter_opposite(order, opposite_direction_orders),
                                   order.direction = "Long")
             matched_orders == take_orders(orders, order.quantity, <<>>)
         IN  IF Len(matched_orders) > 1 THEN ResultErr
             ELSE IF matched_orders = <<>> THEN ResultNone
             ELSE ResultSome(MatchParams(order, matched_orders))

\* MatchParams::matches: the taker's params first, then the makers'.
matches_of(match_params) ==
    <<match_params.taker_match>> \o match_params.makers_matches

-----------------------------------------------------------------------------
(* The order store: orders::* and matches::* on the tables orders and matches *)

\* orders::set_expired_limit_orders_to_failed
set_expired_limit_orders_to_failed(rows, passed) ==
    [id \in DOMAIN rows |->
        IF /\ rows[id].order_type = "Limit"
           /\ rows[id].order_state = "Open"
           /\ id \in passed
        THEN [rows[id] EXCEPT !.order_state = "Failed"]
        ELSE rows[id]]

\* orders::insert: the new row is Open.
insert(rows, new_order, order_reason) ==
    [id \in DOMAIN rows \cup {new_order.id} |->
        IF id = new_order.id
        THEN Order(new_order.id, new_order.trader_id, new_order.direction,
                   new_order.order_type, new_order.price, new_order.quantity,
                   new_order.id, "Open", order_reason)
        ELSE rows[id]]

\* orders::get_by_trader_id_and_state: the ids of the rows it can return.
get_by_trader_id_and_state(rows, trader_id, order_state) ==
    {id \in DOMAIN rows : /\ rows[id].trader_id = trader_id
                          /\ rows[id].order_state = order_state}

RECURSIVE rows_in_id_order(_, _)
rows_in_id_order(rows, ids) ==
    IF ids = {} THEN <<>>
    ELSE LET first == CHOOSE id \in ids : \A other \in ids : id <= other
         IN  <<rows[first]>> \o rows_in_id_order(rows, ids \ {first})

\* orders::all_by_direction_and_type: the Open rows of a direction and type.
all_by_direction_and_type(rows, direction, order_type) ==
    rows_in_id_order(rows,
        {id \in DOMAIN rows : /\ rows[id].direction = direction
                              /\ rows[id].order_type = order_type
                              /\ rows[id].order_state = "Open"})

\* orders::set_order_state
set_order_state(rows, id, order_state) ==
    [rows EXCEPT ![id].order_state = order_state]

\* matches::insert: one row per Match of the trader's FilledWith.
MatchRow(filled_with, match) ==
    [order_id |-> filled_with.order_id, match_order_id |-> match.order_id,
     quantity |-> match.quantity, trader_id |-> match.pubkey,
     execution_price |-> match.execution_price]

insert_matches(table, match_param) ==
    table \o [i \in DOMAIN match_param.filled_with.matches |->
                MatchRow(match_param.filled_with,
                         match_param.filled_with.matches[i])]

\* matches::get_matches_by_order_id
get_matches_by_order_id(table, order_id) ==
    LET of_order(row) == row.order_id = order_id
    IN  SelectSeq(table, of_order)

\* orderbook_commons::get_filled_with_from_matches
get_filled_with_from_matches(order_id, rows) ==
    FilledWith(order_id,
        [i \in DOMAIN rows |->
            Match(rows[i].match_order_id, rows[i].quantity, rows[i].trader_id,
                  rows[i].execution_price)])

-----------------------------------------------------------------------------
(* Messages, notification channels and notify_trader *)

NoChannel == 0

NoOrder == Order(0, "nobody", "Long", "Limit", 0, 0, 0, "Open", "Manual")

NoFilledWith == FilledWith(0, <<>>)

message_for_mutant_taker(order_reason, order, filled_with) ==
    IF order_reason = "Manual"
    THEN [variant |-> "Match", order |-> 0,
          filled_with |-> [filled_with EXCEPT !.order_id = order.id]]
    ELSE [variant |-> "AsyncMatch", order |-> order.id,
          filled_with |-> [filled_with EXCEPT !.order_id = order.id]]

\* OrderbookMsg::Match(filled_with) | OrderbookMsg::AsyncMatch {order, filled_with}
message_for(order_reason, order, filled_with) ==
    IF order_reason = "Manual"
    THEN [variant |-> "Match", order |-> 0, filled_with |-> filled_with]
    ELSE [variant |-> "AsyncMatch", order |-> order.id, filled_with |-> filled_with]

notify_outcome_mutant_block(trader_id, traders) ==
    IF traders[trader_id] = NoChannel THEN "Wait"
    ELSE IF channels[traders[trader_id]].closed THEN "ConnectionLost"
    ELSE IF Len(channels[traders[trader_id]].buffer) < ChannelCapacity THEN "Sent"
    ELSE "Wait"

\* notify_trader: "NotConnected" (no entry in the map), "ConnectionLost" (the
\* receiver is gone), "Sent", or "Wait" while the channel is full.
notify_outcome(trader_id, traders) ==
    IF traders[trader_id] = NoChannel THEN "NotConnected"
    ELSE IF channels[traders[trader_id]].closed THEN "ConnectionLost"
    ELSE IF Len(channels[traders[trader_id]].buffer) < ChannelCapacity THEN "Sent"
    ELSE "Wait"

channels_after_send(trader_id, message, traders) ==
    IF notify_outcome(trader_id, traders) = "Sent"
    THEN [channels EXCEPT ![traders[trader_id]].buffer = Append(@, message)]
    ELSE channels

\* The order state process_new_order records after a failed notification.
state_after_failed_notify_mutant_failed(order) == "Failed"

state_after_failed_notify(order) ==
    IF order.order_type = "Limit" THEN "Taken" ELSE "Matched"

-----------------------------------------------------------------------------
(* The trading loop and the tasks it spawns *)

NewOrderMessage(new_order, order_reason) ==
    [kind |-> "NewOrder", new_order |-> new_order, order_reason |-> order_reason,
     new_user |-> "nobody", sender |-> NoChannel]

NewUserMessage(new_user, sender) ==
    [kind |-> "NewUser", new_order |-> NoOrder, order_reason |-> "Manual",
     new_user |-> new_user, sender |-> sender]

\* A spawned task: the message it handles, its clone of authenticated_users,
\* its position (pc), its local variables, and a record of what it has done
\* (swept: the orders whose expiry had passed when its sweep ran; notified:
\* the notification attempts; writes: the order states it set;
\* receiver_dropped: the submitter has dropped the receiver of the item's
\* response channel; response: what became of the result sent on it).
Task(message, users, pc) ==
    [kind |-> message.kind, pc |-> pc, users |-> users,
     new_order |-> message.new_order, order_reason |-> message.order_reason,
     new_user |-> message.new_user, sender |-> message.sender,
     swept |-> {},
     order |-> NoOrder, match_result |-> "NotRun", match_params |-> <<>>,
     next |-> 1, order_state |-> "Open", pending |-> NoOrder,
     filled_with |-> NoFilledWith,
     result |-> "None", receiver_dropped |-> FALSE, response |-> "None",
     notified |-> <<>>, writes |-> <<>>]

OrderPrices == {-1, 0, 1}
OrderQuantities == {1, 2}
OrderReasons == {"Manual", "Expired"}

\* The Limit orders at rest in the order store when start is called: rows
\* that earlier runs inserted and left Open. Traders are interchangeable, so
\* the resting order is alice's.
RestingOrders(id) ==
    {Order(id, "alice", "Long", "Limit", p, q, id, "Open", "Manual") :
        p \in {p \in OrderPrices : p > 0}, q \in OrderQuantities}

\* start: the queue is empty, nobody is authenticated, nothing is spawned.
EngineInit(resting) ==
    /\ queue = <<>>
    /\ loop = "running"
    /\ authenticated_users = [t \in Traders |-> NoChannel]
    /\ tasks = <<>>
    /\ db_orders = resting
    /\ db_matches = <<>>
    /\ channels = <<>>
    /\ price_feed = <<>>
    /\ submitted = 0
    /\ expired = {}
    /\ failures = 0

\* The NewOrder messages that can be submitted: a trader's Limit order
\* (reason Manual), or a Market order, which a trader submits (Manual) or the
\* coordinator submits for a trader's expired position (Expired). A Market
\* order carries price 0.
NewOrderMessages(id) ==
    {NewOrderMessage(Order(id, t, d, "Limit", p, q, id, "Open", "Manual"), "Manual") :
        t \in Traders, d \in Directions, p \in OrderPrices, q \in OrderQuantities}
    \cup
    {NewOrderMessage(Order(id, t, d, "Market", 0, q, id, "Open", r), r) :
        t \in Traders, d \in Directions, q \in OrderQuantities, r \in OrderReasons}

\* POST /api/orderbook/orders: a NewOrder message is put on the queue.
SubmitOrder ==
    /\ submitted < MaxOrders
    /\ submitted + Len(channels) < MaxItems
    /\ Len(queue) < TRADING_MESSAGES_BUFFER_SIZE
    /\ \E message \in NewOrderMessages(MaxResting + submitted + 1) :
         queue' = Append(queue, message)
    /\ submitted' = submitted + 1
    /\ UNCHANGED <<loop, authenticated_users, tasks, db_orders, db_matches, channels,
                   price_feed, expired, failures, m_vars>>

\* A trader's websocket authenticates: a channel is created and its sender
\* is put on the queue in a NewUser message.
SubmitUser ==
    /\ Len(channels) < MaxUsers
    /\ submitted + Len(channels) < MaxItems
    /\ Len(queue) < TRADING_MESSAGES_BUFFER_SIZE
    /\ \E t \in Traders :
         queue' = Append(queue, NewUserMessage(t, Len(channels) + 1))
    /\ channels' = Append(channels, [closed |-> FALSE, buffer |-> <<>>])
    /\ UNCHANGED <<loop, authenticated_users, tasks, db_orders, db_matches,
                   price_feed, submitted, expired, failures, m_vars>>

\* The websocket task takes a message from its channel. A sender only sees
\* whether the channel is full, so the receiver is modelled taking a message
\* no earlier than that; it may also never take one.
Receive ==
    /\ \E c \in DOMAIN channels :
         /\ ~channels[c].closed
         /\ Len(channels[c].buffer) = ChannelCapacity
         /\ channels' = [channels EXCEPT ![c].buffer = Tail(@)]
    /\ UNCHANGED <<queue, loop, authenticated_users, tasks, db_orders, db_matches,
                   price_feed, submitted, expired, failures, m_vars>>

\* The websocket closes: the receiver of the channel is dropped.
Disconnect ==
    /\ \E c \in DOMAIN channels :
         /\ ~channels[c].closed
         /\ channels' = [channels EXCEPT ![c] = [closed |-> TRUE, buffer |-> <<>>]]
    /\ UNCHANGED <<queue, loop, authenticated_users, tasks, db_orders, db_matches,
                   price_feed, submitted, expired, failures, m_vars>>

\* Time passes the expiry of a resting Limit order.
Expire ==
    /\ Cardinality(expired) < MaxExpired
    /\ \E id \in DOMAIN db_orders :
         /\ id \notin expired
         /\ db_orders[id].order_type = "Limit"
         /\ db_orders[id].order_state = "Open"
         /\ expired' = expired \cup {id}
    /\ UNCHANGED <<queue, loop, authenticated_users, tasks, db_orders, db_matches,
                   channels, price_feed, submitted, failures, m_vars>>

insert_user_mutant_keep_first(users, new_user, sender) ==
    IF users[new_user] = NoChannel THEN [users EXCEPT ![new_user] = sender] ELSE users

insert_user_mutant_skip(users, new_user, sender) == users

\* Line 125: authenticated_users.insert(new_user, sender)
insert_user(users, new_user, sender) == [users EXCEPT ![new_user] = sender]

\* pool.get()? or a query of the order store fails.
CanFail == failures < MaxFailures

\* Lines 116-118: new_order_msg.sender.send(result) delivers the result, or
\* fails because the submitter has dropped its receiver; the failure is
\* logged.
send_result(i) ==
    IF tasks[i].receiver_dropped THEN "ReceiverDropped" ELSE "Delivered"

\* start: one iteration of the while loop on a NewOrder message.
DequeueNewOrder ==
    /\ loop = "running"
    /\ queue # <<>>
    /\ Head(queue).kind = "NewOrder"
    /\ queue' = Tail(queue)
    /\ \/ /\ tasks' = Append(tasks, Task(Head(queue), authenticated_users, "sweep"))
          /\ UNCHANGED <<loop, failures>>
       \/ /\ CanFail
          /\ failures' = failures + 1
          /\ loop' = "failed"
          /\ UNCHANGED tasks
    /\ UNCHANGED <<authenticated_users, db_orders, db_matches, channels, price_feed,
                   submitted, expired, m_vars>>

\* start: one iteration of the while loop on a NewUser message.
DequeueNewUser ==
    /\ loop = "running"
    /\ queue # <<>>
    /\ Head(queue).kind = "NewUser"
    /\ queue' = Tail(queue)
    /\ authenticated_users' =
         insert_user(authenticated_users, Head(queue).new_user, Head(queue).sender)
    /\ \/ /\ tasks' = Append(tasks, Task(Head(queue), authenticated_users', "pending"))
          /\ UNCHANGED <<loop, failures>>
       \/ /\ CanFail
          /\ failures' = failures + 1
          /\ loop' = "failed"
          /\ UNCHANGED tasks
    /\ UNCHANGED <<db_orders, db_matches, channels, price_feed, submitted, expired, m_vars>>

-----------------------------------------------------------------------------
(* process_new_order, one action per await or query of the order store *)

At(i, pc) == i \in DOMAIN tasks /\ tasks[i].pc = pc

\* A query fails: the ? operator returns the error, which the task sends to
\* the submitter (lines 116-118).
QueryFails_mutant_silent(i) ==
    /\ CanFail
    /\ failures' = failures + 1
    /\ tasks' = [tasks EXCEPT ![i].pc = "done", ![i].result = "DbError"]

QueryFails(i) ==
    /\ CanFail
    /\ failures' = failures + 1
    /\ tasks' = [tasks EXCEPT ![i].pc = "done", ![i].result = "DbError",
                                ![i].response = send_result(i)]

expiry_sweep_mutant_skip(rows, passed) == rows

expiry_sweep_mutant_toggle(rows, passed) ==
    [id \in DOMAIN rows |->
        IF rows[id].order_type = "Limit" /\ id \in passed
        THEN [rows[id] EXCEPT !.order_state = IF @ = "Open" THEN "Failed"
                                              ELSE IF @ = "Failed" THEN "Open" ELSE @]
        ELSE rows[id]]

\* Lines 171-175: the Limit orders whose expiry has passed are set to Failed.
expiry_sweep(rows, passed) == set_expired_limit_orders_to_failed(rows, passed)

\* Lines 165-175: the zero-price check, then the expiry sweep.
Sweep(i) ==
    /\ At(i, "sweep")
    /\ LET new_order == tasks[i].new_order IN
       IF new_order.order_type = "Limit" /\ new_order.price = 0
       THEN /\ tasks' = [tasks EXCEPT ![i].pc = "done", ![i].result = "InvalidOrder",
                                        ![i].response = send_result(i)]
            /\ UNCHANGED <<db_orders, failures>>
       ELSE \/ /\ db_orders' = expiry_sweep(db_orders, expired)
               /\ tasks' = [tasks EXCEPT ![i].pc = "insert", ![i].swept = expired]
               /\ UNCHANGED failures
            \/ QueryFails(i) /\ UNCHANGED db_orders
    /\ UNCHANGED <<queue, loop, authenticated_users, db_matches, channels, price_feed,
                   submitted, expired, m_vars>>

Insert_mutant_match_limit(i) ==
    /\ At(i, "insert")
    /\ db_orders' = insert(db_orders, tasks[i].new_order, tasks[i].order_reason)
    /\ tasks' = [tasks EXCEPT ![i].order = db_orders'[tasks[i].new_order.id],
                              ![i].pc = "check"]
    /\ UNCHANGED <<queue, loop, authenticated_users, db_matches, channels, price_feed,
                   submitted, expired, failures, m_vars>>

\* Lines 177-184: orders::insert; a Limit order is then sent on the price
\* feed (broadcast's send fails when no receiver is subscribed) and the
\* result is sent to the submitter.
Insert(i) ==
    /\ At(i, "insert")
    /\ \/ /\ db_orders' = insert(db_orders, tasks[i].new_order, tasks[i].order_reason)
          /\ IF tasks[i].new_order.order_type = "Limit"
             THEN \E has_receivers \in BOOLEAN :
                    /\ price_feed' = IF has_receivers
                                     THEN Append(price_feed, tasks[i].new_order.id)
                                     ELSE price_feed
                    /\ tasks' = [tasks EXCEPT
                          ![i].order = db_orders'[tasks[i].new_order.id],
                          ![i].pc = "done",
                          ![i].result = IF has_receivers THEN "Ok" ELSE "FeedError",
                          ![i].response = send_result(i)]
             ELSE /\ tasks' = [tasks EXCEPT
                          ![i].order = db_orders'[tasks[i].new_order.id],
                          ![i].pc = "check"]
                  /\ UNCHANGED price_feed
          /\ UNCHANGED failures
       \/ QueryFails(i) /\ UNCHANGED <<db_orders, price_feed>>
    /\ UNCHANGED <<queue, loop, authenticated_users, db_matches, channels,
                   submitted, expired, m_vars>>

check_in_flight_mutant_skip(i) == FALSE

\* Lines 187-189: does the trader already have a Matched order?
check_in_flight(i) ==
    get_by_trader_id_and_state(db_orders, tasks[i].new_order.trader_id, "Matched") # {}

\* Lines 186-193: a Market order of a trader with a Matched order is rejected.
Check(i) ==
    /\ At(i, "check")
    /\ \/ /\ tasks' = [tasks EXCEPT
                   ![i].pc = IF check_in_flight(i) THEN "done" ELSE "fetch",
                   ![i].result = IF check_in_flight(i) THEN "InvalidOrder" ELSE @,
                   ![i].response = IF check_in_flight(i) THEN send_result(i) ELSE @]
          /\ UNCHANGED failures
       \/ QueryFails(i)
    /\ UNCHANGED <<queue, loop, authenticated_users, db_orders, db_matches, channels,
                   price_feed, submitted, expired, m_vars>>

\* Lines 195-221: the opposite Limit orders are fetched and match_order runs.
Fetch(i) ==
    /\ At(i, "fetch")
    /\ \/ LET order == tasks[i].order
              opposite_direction_orders ==
                  all_by_direction_and_type(db_orders, opposite(order.direction), "Limit")
              matched_orders == match_order(order, opposite_direction_orders)
          IN  /\ tasks' = [tasks EXCEPT
                    ![i].match_result = matched_orders.tag,
                    ![i].match_params =
                        IF matched_orders.tag = "Some"
                        THEN matches_of(matched_orders.value[1]) ELSE <<>>,
                    ![i].result =
                        IF matched_orders.tag = "None" THEN "NoMatchFound"
                        ELSE IF matched_orders.tag = "Err" THEN "MatchError"
                        ELSE @,
                    ![i].pc = IF matched_orders.tag = "Some"
                              THEN "insert_match" ELSE "fail"]
              /\ UNCHANGED failures
       \/ QueryFails(i)
    /\ UNCHANGED <<queue, loop, authenticated_users, db_orders, db_matches, channels,
                   price_feed, submitted, expired, m_vars>>

Fail_mutant_skip(i) ==
    /\ At(i, "fail")
    /\ tasks' = [tasks EXCEPT ![i].pc = "done", ![i].response = send_result(i)]
    /\ UNCHANGED <<queue, loop, authenticated_users, db_orders, db_matches, channels,
                   price_feed, submitted, expired, failures, m_vars>>

\* Lines 211-220: the unmatched order is set to Failed and the error is sent
\* to the submitter.
Fail(i) ==
    /\ At(i, "fail")
    /\ \/ /\ db_orders' = set_order_state(db_orders, tasks[i].order.id, "Failed")
          /\ tasks' = [tasks EXCEPT
                   ![i].pc = "done",
                   ![i].response = send_result(i),
                   ![i].writes = Append(@, [order_id |-> tasks[i].order.id,
                                            order_state |-> "Failed"])]
          /\ UNCHANGED failures
       \/ QueryFails(i) /\ UNCHANGED db_orders
    /\ UNCHANGED <<queue, loop, authenticated_users, db_matches, channels, price_feed,
                   submitted, expired, m_vars>>

\* Line 227: matches::insert for the next trader of the match.
InsertMatch(i) ==
    /\ At(i, "insert_match")
    /\ \/ /\ db_matches' = insert_matches(db_matches, tasks[i].match_params[tasks[i].next])
          /\ tasks' = [tasks EXCEPT ![i].pc = "notify"]
          /\ UNCHANGED failures
       \/ QueryFails(i) /\ UNCHANGED db_matches
    /\ UNCHANGED <<queue, loop, authenticated_users, db_orders, channels, price_feed,
                   submitted, expired, m_vars>>

\* Lines 229-262: the trader is notified; the state to record is chosen.
Notify(i) ==
    /\ At(i, "notify")
    /\ LET match_param == tasks[i].match_params[tasks[i].next]
           message == message_for(tasks[i].order.order_reason, tasks[i].order,
                                  match_param.filled_with)
           outcome == notify_outcome(match_param.trader_id, tasks[i].users)
       IN  /\ outcome # "Wait"
           /\ channels' = channels_after_send(match_param.trader_id, message,
                                              tasks[i].users)
           /\ tasks' = [tasks EXCEPT
                 ![i].pc = "set_state",
                 ![i].order_state = IF outcome = "Sent" THEN "Matched"
                                    ELSE state_after_failed_notify(tasks[i].order),
                 ![i].notified = Append(@, [trader_id |-> match_param.trader_id,
                                            order_id |-> match_param.filled_with.order_id,
                                            outcome |-> outcome])]
    /\ UNCHANGED <<queue, loop, authenticated_users, db_orders, db_matches, price_feed,
                   submitted, expired, failures, m_vars>>

SetState_mutant_taker_only(i) ==
    /\ At(i, "set_state")
    /\ LET match_param == tasks[i].match_params[tasks[i].next]
           last == tasks[i].next = Len(tasks[i].match_params)
       IN  /\ db_orders' = IF tasks[i].next = 1
                           THEN set_order_state(db_orders,
                                    match_param.filled_with.order_id, tasks[i].order_state)
                           ELSE db_orders
           /\ tasks' = [tasks EXCEPT
                    ![i].pc = IF last THEN "done" ELSE "insert_match",
                    ![i].result = IF last THEN "Ok" ELSE @,
                    ![i].response = IF last THEN send_result(i) ELSE @,
                    ![i].next = @ + 1,
                    ![i].writes = Append(@, [order_id |-> match_param.filled_with.order_id,
                                             order_state |-> tasks[i].order_state])]
    /\ UNCHANGED <<queue, loop, authenticated_users, db_matches, channels, price_feed,
                   submitted, expired, failures, m_vars>>

\* Line 269: the trader's order state is written; then the next trader, or
\* after the last one Ok(order) is sent to the submitter (lines 273, 116).
SetState(i) ==
    /\ At(i, "set_state")
    /\ LET match_param == tasks[i].match_params[tasks[i].next]
           last == tasks[i].next = Len(tasks[i].match_params)
       IN  \/ /\ db_orders' = set_order_state(db_orders, match_param.filled_with.order_id,
                                           tasks[i].order_state)
              /\ tasks' = [tasks EXCEPT
                    ![i].pc = IF last THEN "done" ELSE "insert_match",
                    ![i].result = IF last THEN "Ok" ELSE @,
                    ![i].response = IF last THEN send_result(i) ELSE @,
                    ![i].next = @ + 1,
                    ![i].writes = Append(@, [order_id |-> match_param.filled_with.order_id,
                                             order_state |-> tasks[i].order_state])]
              /\ UNCHANGED failures
           \/ QueryFails(i) /\ UNCHANGED db_orders
    /\ UNCHANGED <<queue, loop, authenticated_users, db_matches, channels, price_feed,
                   submitted, expired, m_vars>>

-----------------------------------------------------------------------------
(* process_pending_match *)

\* A failed query of process_pending_match is logged by the task.
PendingQueryFails(i) ==
    /\ CanFail
    /\ failures' = failures + 1
    /\ tasks' = [tasks EXCEPT ![i].pc = "done", ![i].result = "DbError"]

\* Lines 282-286: is there a Matched order of the trader? If so the
\* FilledWith is rebuilt from the order's Match rows.
Pending(i) ==
    /\ At(i, "pending")
    /\ LET found == get_by_trader_id_and_state(db_orders, tasks[i].new_user, "Matched")
       IN  \/ /\ found = {}
              /\ tasks' = [tasks EXCEPT ![i].pc = "done", ![i].result = "Ok"]
              /\ UNCHANGED failures
           \/ /\ \E id \in found :
                   tasks' = [tasks EXCEPT
                       ![i].pc = "pending_notify",
                       ![i].pending = db_orders[id],
                       ![i].filled_with =
                           get_filled_with_from_matches(id,
                               get_matches_by_order_id(db_matches, id))]
              /\ UNCHANGED failures
           \/ PendingQueryFails(i)
    /\ UNCHANGED <<queue, loop, authenticated_users, db_orders, db_matches, channels,
                   price_feed, submitted, expired, m_vars>>

\* Lines 288-295: the trader is notified; a failure is logged.
PendingNotify(i) ==
    /\ At(i, "pending_notify")
    /\ LET message == message_for(tasks[i].pending.order_reason, tasks[i].pending,
                                  tasks[i].filled_with)
           outcome == notify_outcome(tasks[i].new_user, tasks[i].users)
       IN  /\ outcome # "Wait"
           /\ channels' = channels_after_send(tasks[i].new_user, message, tasks[i].users)
           /\ tasks' = [tasks EXCEPT
                 ![i].pc = "done",
                 ![i].result = "Ok",
                 ![i].notified = Append(@, [trader_id |-> tasks[i].new_user,
                                            order_id |-> tasks[i].pending.id,
                                            outcome |-> outcome])]
    /\ UNCHANGED <<queue, loop, authenticated_users, db_orders, db_matches, price_feed,
                   submitted, expired, failures, m_vars>>

-----------------------------------------------------------------------------
(* The engine *)

Init ==
    /\ \E n \in 0..MaxResting :
         \E resting \in [1..n -> UNION {RestingOrders(id) : id \in 1..n}] :
            /\ \A id \in 1..n : resting[id].id = id
            /\ EngineInit(resting)
    /\ m_phase = "idle"
    /\ m_order = NoOrder
    /\ m_candidates = <<>>
    /\ m_is_long = FALSE
    /\ m_result = [tag |-> "NotRun", value |-> <<>>]
    /\ m_sorted = <<>>

Next ==
    \/ SubmitOrder
    \/ SubmitUser
    \/ Receive
    \/ Disconnect
    \/ Expire
    \/ DequeueNewOrder
    \/ DequeueNewUser
    \/ \E i \in DOMAIN tasks : Sweep(i)
    \/ \E i \in DOMAIN tasks : Insert(i)
    \/ \E i \in DOMAIN tasks : Check(i)
    \/ \E i \in DOMAIN tasks : Fetch(i)
    \/ \E i \in DOMAIN tasks : Fail(i)
    \/ \E i \in DOMAIN tasks : InsertMatch(i)
    \/ \E i \in DOMAIN tasks : Notify(i)
    \/ \E i \in DOMAIN tasks : SetState(i)
    \/ \E i \in DOMAIN tasks : Pending(i)
    \/ \E i \in DOMAIN tasks : PendingNotify(i)

Spec == Init /\ [][Next]_vars

-----------------------------------------------------------------------------
(* The engine with both traders registered, up to the end of the loop *)

LoopEnds_mutant_cancel ==
    /\ loop = "running"
    /\ queue = <<>>
    /\ loop' = "ended"
    /\ tasks' = <<>>
    /\ UNCHANGED <<queue, authenticated_users, db_orders, db_matches, channels,
                   price_feed, submitted, expired, failures, m_vars>>

\* Lines 105 and 141: recv() returns None once every sender is dropped and
\* the queue is empty; the loop's future returns Ok(()). The loop cannot see
\* the senders go before the queue is empty, so their drop is part of this
\* step. The spawned tasks are detached (tokio::spawn) and are left alone.
LoopEnds ==
    /\ loop = "running"
    /\ queue = <<>>
    /\ loop' = "ended"
    /\ UNCHANGED <<queue, authenticated_users, tasks, db_orders, db_matches, channels,
                   price_feed, submitted, expired, failures, m_vars>>

\* The submitter of an order stops waiting for the result (its request is
\* cancelled or times out): the receiver of the response channel is dropped.
SubmitterDrops ==
    /\ \E i \in DOMAIN tasks :
         /\ tasks[i].kind = "NewOrder"
         /\ tasks[i].pc # "done"
         /\ ~tasks[i].receiver_dropped
         /\ tasks' = [tasks EXCEPT ![i].receiver_dropped = TRUE]
    /\ UNCHANGED <<queue, loop, authenticated_users, db_orders, db_matches, channels,
                   price_feed, submitted, expired, failures, m_vars>>

\* The replay task of a registration that found no Matched order.
ReplayDone(new_user, sender, users) ==
    [Task(NewUserMessage(new_user, sender), users, "done") EXCEPT !.result = "Ok"]

\* The engine after alice and bob have registered, in this order, and their
\* replay tasks have finished; one NewOrder message is on the queue.
InitRegistered ==
    /\ \E n \in 0..MaxResting :
         \E resting \in [1..n -> UNION {RestingOrders(id) : id \in 1..n}] :
            /\ \A id \in 1..n : resting[id].id = id
            /\ db_orders = resting
    /\ \E message \in NewOrderMessages(MaxResting + 1) : queue = <<message>>
    /\ submitted = 1
    /\ loop = "running"
    /\ authenticated_users = [t \in Traders |-> IF t = "alice" THEN 1 ELSE 2]
    /\ channels = <<[closed |-> FALSE, buffer |-> <<>>],
                    [closed |-> FALSE, buffer |-> <<>>]>>
    /\ tasks = <<ReplayDone("alice", 1,
                     insert_user([t \in Traders |-> NoChannel], "alice", 1)),
                 ReplayDone("bob", 2, authenticated_users)>>
    /\ db_matches = <<>>
    /\ price_feed = <<>>
    /\ expired = {}
    /\ failures = 0
    /\ m_phase = "idle"
    /\ m_order = NoOrder
    /\ m_candidates = <<>>
    /\ m_is_long = FALSE
    /\ m_result = [tag |-> "NotRun", value |-> <<>>]
    /\ m_sorted = <<>>

\* A step of a task spawned for a NewOrder item.
NewOrderStep ==
    \E i \in DOMAIN tasks :
        \/ Sweep(i) \/ Insert(i) \/ Check(i) \/ Fetch(i) \/ Fail(i)
        \/ InsertMatch(i) \/ Notify(i) \/ SetState(i)

NextRegistered ==
    \/ Receive
    \/ Disconnect
    \/ Expire
    \/ DequeueNewOrder
    \/ LoopEnds
    \/ SubmitterDrops
    \/ \E i \in DOMAIN tasks : Sweep(i)
    \/ \E i \in DOMAIN tasks : Insert(i)
    \/ \E i \in DOMAIN tasks : Check(i)
    \/ \E i \in DOMAIN tasks : Fetch(i)
    \/ \E i \in DOMAIN tasks : Fail(i)
    \/ \E i \in DOMAIN tasks : InsertMatch(i)
    \/ \E i \in DOMAIN tasks : Notify(i)
    \/ \E i \in DOMAIN tasks : SetState(i)

\* The tokio runtime runs the loop and every spawned task that is ready; the
\* websocket tasks, the submitters and the clock are not obliged to act.
SpecRegistered ==
    /\ InitRegistered
    /\ [][NextRegistered]_vars
    /\ WF_vars(DequeueNewOrder \/ LoopEnds \/ NewOrderStep)

-----------------------------------------------------------------------------
(* The engine restarted on an order store that holds an executed match *)

\* The rows an earlier run left for a Market order matched against a Limit
\* order: both orders Matched (lines 241-269), the Match rows of the taker
\* and of the maker (line 227).
EarlierOrders(maker, taker) ==
    set_order_state(
        set_order_state(insert(<<maker>>, taker, taker.order_reason), taker.id, "Matched"),
        maker.id, "Matched")

EarlierMatches(maker, taker) ==
    LET order == insert(<<maker>>, taker, taker.order_reason)[taker.id]
        match_params == matches_of(match_order(order, <<maker>>).value[1])
    IN  insert_matches(insert_matches(<<>>, match_params[1]), match_params[2])

\* start on a store that holds the orders 1 and 2 of an earlier match and
\* up to MaxResting Open Limit orders; one NewOrder message has been sent.
InitRestart ==
    /\ \E maker \in RestingOrders(1), t \in Traders, r \in OrderReasons :
         \E n \in 0..MaxResting :
            \E resting \in [3..(n + 2) -> UNION {RestingOrders(id) : id \in 3..(n + 2)}] :
               LET taker == Order(2, t, "Short", "Market", 0, 1, 2, "Open", r)
               IN  /\ \A id \in 3..(n + 2) : resting[id].id = id
                   /\ db_orders = [id \in 1..(n + 2) |->
                                     IF id <= 2 THEN EarlierOrders(maker, taker)[id]
                                     ELSE resting[id]]
                   /\ db_matches = EarlierMatches(maker, taker)
    /\ \E message \in NewOrderMessages(MaxResting + 3) : queue = <<message>>
    /\ submitted = 1
    /\ loop = "running"
    /\ authenticated_users = [t \in Traders |-> NoChannel]
    /\ tasks = <<>>
    /\ channels = <<>>
    /\ price_feed = <<>>
    /\ expired = {}
    /\ failures = 0
    /\ m_phase = "idle"
    /\ m_order = NoOrder
    /\ m_candidates = <<>>
    /\ m_is_long = FALSE
    /\ m_result = [tag |-> "NotRun", value |-> <<>>]
    /\ m_sorted = <<>>

NextRestart ==
    \/ Expire
    \/ DequeueNewOrder
    \/ \E i \in DOMAIN tasks : Sweep(i)
    \/ \E i \in DOMAIN tasks : Insert(i)
    \/ \E i \in DOMAIN tasks : Check(i)
    \/ \E i \in DOMAIN tasks : Fetch(i)
    \/ \E i \in DOMAIN tasks : Fail(i)
    \/ \E i \in DOMAIN tasks : InsertMatch(i)
    \/ \E i \in DOMAIN tasks : Notify(i)
    \/ \E i \in DOMAIN tasks : SetState(i)

SpecRestart == InitRestart /\ [][NextRestart]_vars

-----------------------------------------------------------------------------
(* Claims about the engine *)

NewOrderTasks == {i \in DOMAIN tasks : tasks[i].kind = "NewOrder"}

MarketTasks == {i \in NewOrderTasks : tasks[i].new_order.order_type = "Market"}

\* The Market orders that hold Match rows against the Limit order maker and
\* are in state Matched.
MatchedTakersOf(maker) ==
    {taker \in DOMAIN db_orders :
        /\ db_orders[taker].order_type = "Market"
        /\ db_orders[taker].order_state = "Matched"
        /\ \E k \in DOMAIN db_matches :
             /\ db_matches[k].order_id = taker
             /\ db_matches[k].match_order_id = maker}

\* C1: a resting Limit order is consumed by at most one Market order: no
\* two Market orders of different traders both end with Match rows against
\* it and in state Matched.
C1_LimitOrderHasOneTaker ==
    \A maker \in DOMAIN db_orders :
        db_orders[maker].order_type = "Limit" =>
            \A a, b \in MatchedTakersOf(maker) :
                db_orders[a].trader_id # db_orders[b].trader_id => a = b

\* The k-th trader of task i's match has been notified and its order state
\* has been written.
Settled(i, k) == k \in DOMAIN tasks[i].notified /\ k \in DOMAIN tasks[i].writes

NotifyFailed(i, k) ==
    /\ k \in DOMAIN tasks[i].notified
    /\ tasks[i].notified[k].outcome \in {"NotConnected", "ConnectionLost"}

\* C2: when the maker of a matched Market order is not in the task's
\* snapshot, the state persisted for the maker's Limit order is Taken.
C2_UnnotifiedMakerIsTaken ==
    \A i \in MarketTasks :
        \A k \in DOMAIN tasks[i].writes :
            (/\ k > 1
             /\ Settled(i, k)
             /\ tasks[i].notified[k].outcome = "NotConnected") =>
                tasks[i].writes[k].order_state = "Taken"

\* C3: when the notification of the taker fails, the taker's order is
\* persisted as Matched, and no notification failure of any party is
\* returned to the submitter: a matched order's task answers Ok unless a
\* query of the order store failed.
C3_UnnotifiedTakerIsMatched ==
    \A i \in MarketTasks :
        /\ (NotifyFailed(i, 1) /\ Settled(i, 1)) =>
              /\ tasks[i].writes[1] = [order_id |-> tasks[i].order.id,
                                       order_state |-> "Matched"]
              /\ db_orders[tasks[i].order.id].order_state = "Matched"
        /\ (/\ tasks[i].pc = "done"
            /\ tasks[i].match_result = "Some"
            /\ tasks[i].result # "DbError") =>
              /\ tasks[i].result = "Ok"
              /\ db_orders[tasks[i].order.id].order_state # "Failed"

C3_Witness ==
    \E i \in MarketTasks :
        /\ tasks[i].pc = "done"
        /\ tasks[i].result = "Ok"
        /\ tasks[i].notified[1].outcome = "ConnectionLost"
        /\ tasks[i].notified[2].outcome = "NotConnected"
        /\ db_orders[tasks[i].order.id].order_state = "Matched"

\* The rows of the matches table that name the order.
MatchRowsOf(id) ==
    {k \in DOMAIN db_matches :
        db_matches[k].order_id = id \/ db_matches[k].match_order_id = id}

Rejected(i) == tasks[i].pc = "done" /\ tasks[i].result = "InvalidOrder"

\* The in-flight check of task i finds a Matched order of its trader.
ChecksInFlight(i) ==
    /\ i \in MarketTasks
    /\ tasks[i].pc = "check"
    /\ tasks'[i].pc # "check"
    /\ failures' = failures
    /\ get_by_trader_id_and_state(db_orders, tasks[i].new_order.trader_id,
                                  "Matched") # {}

\* C9: a Market order whose trader has a Matched order at the time of the
\* check is rejected with InvalidOrder; match_order is not run for it, no
\* Match row is persisted, nobody is notified and the task sets no order
\* state.
C9_InFlightOrderIsRejected ==
    /\ [](\A i \in MarketTasks :
            Rejected(i) =>
                /\ tasks[i].match_result = "NotRun"
                /\ tasks[i].notified = <<>>
                /\ tasks[i].writes = <<>>
                /\ MatchRowsOf(tasks[i].new_order.id) = {})
    /\ [][\A i \in DOMAIN tasks :
            ChecksInFlight(i) =>
                /\ tasks'[i].pc = "done"
                /\ tasks'[i].result = "InvalidOrder"
                /\ UNCHANGED <<db_orders, db_matches, channels>>]_vars

C9_Witness ==
    \E i \in MarketTasks :
        /\ Rejected(i)
        /\ \E id \in DOMAIN db_orders :
             /\ id # tasks[i].new_order.id
             /\ db_orders[id].trader_id = tasks[i].new_order.trader_id
             /\ db_orders[id].order_type = "Market"
             /\ db_orders[id].order_state = "Matched"

\* C10: when the processing of a Market order completes without a
\* persistence failure, the order is not left persisted in state Open.
C10_MarketOrderNotLeftOpen ==
    \A i \in MarketTasks :
        (/\ tasks[i].pc = "done"
         /\ tasks[i].result # "DbError"
         /\ tasks[i].new_order.id \in DOMAIN db_orders) =>
            db_orders[tasks[i].new_order.id].order_state
                \in {"Matched", "Taken", "Failed"}

LimitTasks == {i \in NewOrderTasks : tasks[i].new_order.order_type = "Limit"}

Completed(i) == tasks[i].pc = "done" /\ tasks[i].result # "DbError"

\* C11: a Limit order whose price is zero or negative is rejected with
\* InvalidOrder; it is neither persisted nor published on the price feed.
C11_NonPositiveLimitIsRejected ==
    \A i \in LimitTasks :
        tasks[i].new_order.price <= 0 =>
            /\ Completed(i) => tasks[i].result = "InvalidOrder"
            /\ tasks[i].new_order.id \notin DOMAIN db_orders
            /\ \A k \in DOMAIN price_feed : price_feed[k] # tasks[i].new_order.id

\* C12: the submitter of a Limit order with a valid price whose insert
\* succeeded receives Ok(order), whether or not the order could be published
\* on the price feed.
C12_LimitSubmitterReceivesOk ==
    \A i \in LimitTasks :
        (/\ tasks[i].pc = "done"
         /\ tasks[i].new_order.price > 0
         /\ tasks[i].new_order.id \in DOMAIN db_orders) =>
            tasks[i].result = "Ok"

\* C13: the trading loop never terminates because of the failure of one
\* item, a failure to obtain a connection for the item included.
C13_LoopNeverTerminates == loop = "running"

NewUserTasks == {i \in DOMAIN tasks : tasks[i].kind = "NewUser"}

\* The FilledWith that the Match rows of the order give.
PersistedFilledWith(id) ==
    get_filled_with_from_matches(id, get_matches_by_order_id(db_matches, id))

IsPrefix(a, b) == Len(a) <= Len(b) /\ \A k \in DOMAIN a : a[k] = b[k]

\* The replay of task i has made its notification attempt as the code
\* prescribes: to the registering trader, about a Matched order of that
\* trader, with the FilledWith built from the order's Match rows.
ReplayedFromMatchRows(i) ==
    \A k \in DOMAIN tasks[i].notified :
        /\ tasks[i].notified[k].trader_id = tasks[i].new_user
        /\ tasks[i].notified[k].order_id = tasks[i].pending.id
        /\ tasks[i].pending.trader_id = tasks[i].new_user
        /\ tasks[i].pending.order_state = "Matched"
        /\ tasks[i].filled_with.order_id = tasks[i].pending.id
        /\ tasks[i].filled_with.matches # <<>>
        /\ IsPrefix(tasks[i].filled_with.matches,
                    PersistedFilledWith(tasks[i].pending.id).matches)

\* A step of the replay task i.
ReplayStep(i) == tasks[i].kind = "NewUser" /\ tasks'[i] # tasks[i]

\* C14: a registration of a trader with a Matched order makes exactly one
\* notification attempt to that trader, built from the order's Match rows
\* and sent on the channel of that registration; the replay inserts no Match
\* row and sets no order state; a registration of a trader without a Matched
\* order makes no attempt.
C14_RegistrationReplaysOnce ==
    /\ [](\A i \in NewUserTasks :
            /\ tasks[i].users[tasks[i].new_user] = tasks[i].sender
            /\ tasks[i].writes = <<>>
            /\ ReplayedFromMatchRows(i)
            /\ (tasks[i].pc = "done" /\ tasks[i].result = "Ok") =>
                  Len(tasks[i].notified) = IF tasks[i].pending = NoOrder THEN 0 ELSE 1)
    /\ [][\A i \in DOMAIN tasks :
            ReplayStep(i) =>
                /\ UNCHANGED <<db_orders, db_matches>>
                /\ (tasks[i].pc = "pending" /\ failures' = failures) =>
                      IF get_by_trader_id_and_state(db_orders, tasks[i].new_user,
                                                    "Matched") = {}
                      THEN tasks'[i].pc = "done" /\ UNCHANGED channels
                      ELSE tasks'[i].pc = "pending_notify"
                /\ tasks[i].pc = "pending_notify" =>
                      /\ Len(tasks'[i].notified) = 1
                      /\ \A c \in DOMAIN channels :
                            c # tasks[i].sender => channels'[c] = channels[c]]_vars

C14_Witness ==
    \E i \in NewUserTasks :
        /\ tasks[i].pc = "done"
        /\ Len(tasks[i].notified) = 1
        /\ tasks[i].notified[1].outcome = "Sent"
        /\ \E k \in DOMAIN channels[tasks[i].sender].buffer :
              channels[tasks[i].sender].buffer[k].filled_with =
                  PersistedFilledWith(tasks[i].pending.id)

\* Some task has sent the trader a notification about the order.
SentTo(trader_id, order_id) ==
    \E n \in DOMAIN tasks : \E k \in DOMAIN tasks[n].notified :
        /\ tasks[n].notified[k].trader_id = trader_id
        /\ tasks[n].notified[k].order_id = order_id
        /\ tasks[n].notified[k].outcome = "Sent"

AllTasksDone == \A i \in DOMAIN tasks : tasks[i].pc = "done"

\* C15: a match notification that a NewOrder task could not deliver because
\* the trader was not in its snapshot is replayed when the trader's NewUser
\* message is dequeued after the NewOrder item. Stated on the states in which
\* every spawned task has finished, no query has failed and the trader's
\* channel is open: there the notification has been sent.
C15_MissedNotificationIsReplayed ==
    (AllTasksDone /\ failures = 0) =>
        \A i \in MarketTasks : \A k \in DOMAIN tasks[i].notified :
            tasks[i].notified[k].outcome = "NotConnected" =>
                \A j \in NewUserTasks :
                    (/\ j > i
                     /\ tasks[j].new_user = tasks[i].notified[k].trader_id
                     /\ ~channels[tasks[j].sender].closed) =>
                        SentTo(tasks[i].notified[k].trader_id,
                               tasks[i].notified[k].order_id)

\* C16: a notification attempt to a trader whose channel is full does not
\* block: no task is ever held in notify_trader by a full channel.
C16_FullChannelDoesNotBlock ==
    \A i \in DOMAIN tasks :
        /\ tasks[i].pc = "notify" =>
              notify_outcome(tasks[i].match_params[tasks[i].next].trader_id,
                             tasks[i].users) # "Wait"
        /\ tasks[i].pc = "pending_notify" =>
              notify_outcome(tasks[i].new_user, tasks[i].users) # "Wait"

\* The sweep step of NewOrder task i: the task leaves the start of
\* process_new_order without a failed query.
LeavesSweep(i) ==
    /\ tasks[i].kind = "NewOrder"
    /\ tasks[i].pc = "sweep"
    /\ tasks'[i].pc # "sweep"
    /\ failures' = failures

\* C17: the expiry sweep runs on every NewOrder item that is processed,
\* items rejected by validation included.
C17_SweepRunsOnEveryItem ==
    [][\A i \in DOMAIN tasks :
          LeavesSweep(i) => db_orders' = expiry_sweep(db_orders, expired)]_vars

\* The ids of the candidates that task i fetches in the current state.
CandidateIds(i) ==
    LET fetched == all_by_direction_and_type(db_orders,
                       opposite(tasks[i].order.direction), "Limit")
    IN  {fetched[k].id : k \in DOMAIN fetched}

\* The ids of the makers of task i's match.
MakerIds(i) ==
    {tasks[i].match_params[k].filled_with.order_id :
        k \in DOMAIN tasks[i].match_params} \ {tasks[i].order.id}

\* C18: the Limit orders whose expiry had passed when a Market order's sweep
\* ran are not Open afterwards, are not among the candidates the task
\* fetches and are not matched against the Market order.
C18_ExpiredOrderIsNotMatched ==
    \A i \in MarketTasks :
        /\ \A id \in tasks[i].swept :
              db_orders[id].order_type = "Limit" => db_orders[id].order_state # "Open"
        /\ tasks[i].pc = "fetch" => CandidateIds(i) \cap tasks[i].swept = {}
        /\ MakerIds(i) \cap tasks[i].swept = {}

C18_Witness ==
    \E i \in MarketTasks :
        /\ tasks[i].pc = "done"
        /\ tasks[i].match_result = "None"
        /\ \E id \in tasks[i].swept :
              /\ db_orders[id].order_type = "Limit"
              /\ db_orders[id].direction # tasks[i].order.direction
              /\ db_orders[id].order_state = "Failed"

Unmatched(i) == tasks[i].match_result \in {"None", "Err"}

\* C20: a Market order that passes the in-flight check and for which
\* match_order returns None, or an error, is persisted as Failed; the
\* submitter receives NoMatchFound, or another error; no Match row is
\* persisted, nobody is notified and no other order changes state.
C20_UnmatchedOrderIsFailed ==
    \A i \in MarketTasks :
        Unmatched(i) =>
            /\ tasks[i].notified = <<>>
            /\ MatchRowsOf(tasks[i].order.id) = {}
            /\ tasks[i].result \in {"DbError", IF tasks[i].match_result = "None"
                                               THEN "NoMatchFound" ELSE "MatchError"}
            /\ Completed(i) =>
                  /\ db_orders[tasks[i].order.id].order_state = "Failed"
                  /\ tasks[i].writes = <<[order_id |-> tasks[i].order.id,
                                          order_state |-> "Failed"]>>

C20_Witness ==
    \E i \in MarketTasks :
        /\ Completed(i)
        /\ tasks[i].match_result = "Err"
        /\ tasks[i].result = "MatchError"
        /\ db_orders[tasks[i].order.id].order_state = "Failed"

\* C22: Failed is a terminal order state: no step of the engine sets an
\* order that is persisted as Failed to another state.
C22_FailedIsTerminal ==
    [][\A id \in DOMAIN db_orders :
          db_orders[id].order_state = "Failed" =>
              db_orders'[id].order_state = "Failed"]_vars

\* The Market orders of the trader that are in state Matched.
MatchedMarketOrders(trader_id) ==
    {id \in DOMAIN db_orders :
        /\ db_orders[id].trader_id = trader_id
        /\ db_orders[id].order_type = "Market"
        /\ db_orders[id].order_state = "Matched"}

\* C24: no trader ever has two Market orders in state Matched at the same
\* time.
C24_OneInFlightOrderPerTrader ==
    \A t \in Traders : Cardinality(MatchedMarketOrders(t)) <= 1

\* The registrations of the NewUser items among the first n dequeued items,
\* a later registration of a trader replacing an earlier one.
RECURSIVE DirectoryAt(_)
DirectoryAt(n) ==
    IF n = 0 THEN [t \in Traders |-> NoChannel]
    ELSE IF tasks[n].kind = "NewUser"
         THEN [DirectoryAt(n - 1) EXCEPT ![tasks[n].new_user] = tasks[n].sender]
         ELSE DirectoryAt(n - 1)

\* The step spawns the task of the item at the head of the queue.
SpawnsHead ==
    /\ Len(tasks') = Len(tasks) + 1
    /\ queue # <<>>
    /\ queue' = Tail(queue)
    /\ tasks'[Len(tasks')].kind = Head(queue).kind
    /\ tasks'[Len(tasks')].new_order = Head(queue).new_order
    /\ tasks'[Len(tasks')].new_user = Head(queue).new_user
    /\ tasks'[Len(tasks')].sender = Head(queue).sender

\* The step of task i makes a notification attempt.
Attempts(i) == Len(tasks'[i].notified) = Len(tasks[i].notified) + 1

LastAttempt(i) == tasks'[i].notified[Len(tasks'[i].notified)]

\* C25: items are dequeued in FIFO order; the directory of a task is, for
\* its whole lifetime, the registrations dequeued up to and including its
\* item; a registration dequeued later is not visible to it; only the loop
\* modifies authenticated_users.
C25_SnapshotIsDirectoryAtDequeue ==
    /\ [](/\ \A i \in DOMAIN tasks : tasks[i].users = DirectoryAt(i)
          /\ loop = "running" => authenticated_users = DirectoryAt(Len(tasks)))
    /\ [][/\ queue' # queue =>
                \/ queue # <<>> /\ queue' = Tail(queue)
                \/ queue' # <<>> /\ queue = SubSeq(queue', 1, Len(queue') - 1)
          /\ Len(tasks') # Len(tasks) => SpawnsHead
          /\ authenticated_users' # authenticated_users =>
                /\ queue # <<>>
                /\ Head(queue).kind = "NewUser"
                /\ queue' = Tail(queue)
          /\ \A i \in DOMAIN tasks :
                /\ tasks'[i].users = tasks[i].users
                /\ Attempts(i) =>
                      (LastAttempt(i).outcome = "NotConnected"
                          <=> DirectoryAt(i)[LastAttempt(i).trader_id] = NoChannel)]_vars

C25_Witness ==
    \E i \in NewOrderTasks : \E j \in NewUserTasks :
        /\ j > i
        /\ tasks[i].pc = "done"
        /\ tasks[i].users[tasks[j].new_user] = NoChannel
        /\ authenticated_users[tasks[j].new_user] = tasks[j].sender
        /\ \E k \in DOMAIN tasks[i].notified :
              /\ tasks[i].notified[k].trader_id = tasks[j].new_user
              /\ tasks[i].notified[k].outcome = "NotConnected"

\* Every Match of the k-th trader of task i's match is in the matches table.
MatchesPersisted(i, k) ==
    LET filled_with == tasks[i].match_params[k].filled_with
    IN  \A n \in DOMAIN filled_with.matches :
            \E row \in DOMAIN db_matches :
                db_matches[row] = MatchRow(filled_with, filled_with.matches[n])

\* C30: all Match records of a match, the taker's and the makers', are
\* persisted before the first notification attempt, and a trader's order
\* state is written only after the notification attempt to that trader.
C30_MatchesPersistedBeforeNotifying ==
    \A i \in MarketTasks :
        /\ (tasks[i].pc = "notify" \/ tasks[i].notified # <<>>) =>
              \A k \in DOMAIN tasks[i].match_params : MatchesPersisted(i, k)
        /\ tasks[i].match_result = "Some" =>
              \A k \in DOMAIN tasks[i].writes : k \in DOMAIN tasks[i].notified

\* The trader's channel in task i's snapshot is open and has free capacity.
LiveWithCapacity(i, trader_id) ==
    /\ tasks[i].users[trader_id] # NoChannel
    /\ ~channels[tasks[i].users[trader_id]].closed
    /\ Len(channels[tasks[i].users[trader_id]].buffer) < ChannelCapacity

\* The step appends one message about the order to the channel and leaves
\* the other channels alone.
Delivers(channel, order_id) ==
    /\ Len(channels'[channel].buffer) = Len(channels[channel].buffer) + 1
    /\ channels'[channel].buffer[Len(channels'[channel].buffer)].filled_with.order_id
          = order_id
    /\ \A c \in DOMAIN channels : c # channel => channels'[c] = channels[c]

\* Task i has notified the taker and the maker, two different traders.
BothNotified(i) ==
    /\ Len(tasks[i].notified) = 2
    /\ tasks[i].notified[1].outcome = "Sent"
    /\ tasks[i].notified[2].outcome = "Sent"
    /\ tasks[i].notified[1].trader_id # tasks[i].notified[2].trader_id

\* C21: when the taker and the maker of a matched Market order both have a
\* live channel with free capacity in the snapshot, each is sent exactly one
\* message, which carries the receiver's own order id; both orders are then
\* persisted as Matched and the submitter receives Ok.
C21_BothNotifiedBothMatched ==
    /\ [](\A i \in MarketTasks :
            (BothNotified(i) /\ Completed(i)) =>
                /\ tasks[i].result = "Ok"
                /\ tasks[i].notified[1].order_id = tasks[i].order.id
                /\ tasks[i].notified[1].trader_id = tasks[i].order.trader_id
                /\ tasks[i].notified[2].order_id # tasks[i].order.id
                /\ \A k \in 1..2 :
                      /\ db_orders[tasks[i].notified[k].order_id].trader_id
                            = tasks[i].notified[k].trader_id
                      /\ db_orders[tasks[i].notified[k].order_id].order_state = "Matched"
                      /\ tasks[i].writes[k] =
                            [order_id |-> tasks[i].notified[k].order_id,
                             order_state |-> "Matched"])
    /\ [][\A i \in DOMAIN tasks :
            Attempts(i) =>
                /\ LiveWithCapacity(i, LastAttempt(i).trader_id)
                      <=> LastAttempt(i).outcome = "Sent"
                /\ LastAttempt(i).outcome = "Sent" =>
                      Delivers(tasks[i].users[LastAttempt(i).trader_id],
                               LastAttempt(i).order_id)
                /\ LastAttempt(i).outcome # "Sent" => UNCHANGED channels]_vars

C21_Witness ==
    \E i \in MarketTasks :
        /\ BothNotified(i)
        /\ Completed(i)
        /\ tasks[i].result = "Ok"
        /\ \A k \in 1..2 :
              db_orders[tasks[i].notified[k].order_id].order_state = "Matched"

\* Task i is held in notify_trader by a full channel.
HeldByFullChannel(i) ==
    /\ tasks[i].pc = "notify"
    /\ notify_outcome(tasks[i].match_params[tasks[i].next].trader_id,
                      tasks[i].users) = "Wait"

LiveMessage(i, k) ==
    message_for(tasks[i].order.order_reason, tasks[i].order,
                tasks[i].match_params[k].filled_with)

\* The message process_pending_match builds in task j (lines 288-291).
ReplayMessage(j) ==
    message_for(tasks[j].pending.order_reason, tasks[j].pending, tasks[j].filled_with)

\* Task j replays the match of the k-th trader of task i.
Replays(j, i, k) ==
    /\ tasks[j].kind = "NewUser"
    /\ tasks[j].pending # NoOrder
    /\ tasks[i].new_order.order_type = "Market"
    /\ k \in DOMAIN tasks[i].match_params
    /\ tasks[i].match_params[k].filled_with.order_id = tasks[j].pending.id

\* C31: the message the replay builds for a Matched order has the same
\* variant and carries the same order as the message the NewOrder task built
\* for that trader when the match was made, for takers and makers alike.
C31_ReplayBuildsTheLiveMessage ==
    \A j \in DOMAIN tasks : \A i \in DOMAIN tasks :
        \A k \in DOMAIN tasks[i].match_params :
            Replays(j, i, k) =>
                /\ ReplayMessage(j).variant = LiveMessage(i, k).variant
                /\ ReplayMessage(j).order = LiveMessage(i, k).order

\* The trader the task is about to notify.
TraderToNotify(i) ==
    IF tasks[i].kind = "NewUser" THEN tasks[i].new_user
    ELSE tasks[i].match_params[tasks[i].next].trader_id

InNotifyTrader(i) == tasks[i].pc \in {"notify", "pending_notify"}

\* The trader has no entry in the task's snapshot, or the entry's channel
\* has been closed by its receiver.
Unreachable(i, trader_id) ==
    \/ tasks[i].users[trader_id] = NoChannel
    \/ channels[tasks[i].users[trader_id]].closed

\* C32: notify_trader fails at once, without waiting and without queuing
\* the message, when the trader has no entry in the snapshot, and fails when
\* the trader's channel has been closed by its receiver; nothing is
\* delivered and the caller takes its failure branch: process_new_order
\* goes on to record the state of that branch, process_pending_match ends.
C32_UnreachableTraderFailsAtOnce ==
    /\ [](\A i \in DOMAIN tasks :
            (InNotifyTrader(i) /\ Unreachable(i, TraderToNotify(i))) =>
                notify_outcome(TraderToNotify(i), tasks[i].users)
                    = IF tasks[i].users[TraderToNotify(i)] = NoChannel
                      THEN "NotConnected" ELSE "ConnectionLost")
    /\ [][\A i \in DOMAIN tasks :
            (Attempts(i) /\ Unreachable(i, LastAttempt(i).trader_id)) =>
                /\ LastAttempt(i).outcome \in {"NotConnected", "ConnectionLost"}
                /\ UNCHANGED channels
                /\ tasks[i].kind = "NewOrder" =>
                      /\ tasks'[i].pc = "set_state"
                      /\ tasks'[i].order_state = state_after_failed_notify(tasks[i].order)
                /\ tasks[i].kind = "NewUser" => tasks'[i].pc = "done"]_vars

C32_Witness ==
    \E i \in MarketTasks :
        /\ Len(tasks[i].notified) = 2
        /\ tasks[i].notified[1].outcome = "NotConnected"
        /\ tasks[i].notified[2].outcome = "ConnectionLost"
        /\ \A c \in DOMAIN channels : channels[c].buffer = <<>>

\* The step is a step of task i.
StepOf(i) == i \in DOMAIN tasks /\ tasks'[i] # tasks[i]

\* The step is the one in which task i sends its result to the submitter.
Responds(i) == StepOf(i) /\ tasks[i].pc # "done" /\ tasks'[i].pc = "done"

\* The row is one the expiry sweep moves to Failed in this step.
SweptToFailed(id) ==
    /\ id \in expired
    /\ db_orders[id].order_type = "Limit"
    /\ db_orders[id].order_state = "Open"
    /\ db_orders'[id] = [db_orders[id] EXCEPT !.order_state = "Failed"]

\* How often the order is on the price feed.
Published(feed, id) == Cardinality({k \in DOMAIN feed : feed[k] = id})

\* A step of the task of a Limit order inserts at most that order, as Open,
\* publishes at most that order, runs no matching, persists no Match, sends
\* no notification, and changes no other row except by the expiry sweep.
LimitStepFrame(i) ==
    /\ db_matches' = db_matches
    /\ channels' = channels
    /\ tasks'[i].match_result = "NotRun"
    /\ tasks'[i].match_params = <<>>
    /\ tasks'[i].notified = <<>>
    /\ tasks'[i].writes = <<>>
    /\ \A id \in DOMAIN db_orders : db_orders'[id] = db_orders[id] \/ SweptToFailed(id)
    /\ DOMAIN db_orders' \subseteq DOMAIN db_orders \cup {tasks[i].new_order.id}
    /\ \A k \in DOMAIN price_feed' :
          k \in DOMAIN price_feed \/ price_feed'[k] = tasks[i].new_order.id
    /\ Len(price_feed') >= Len(price_feed)

\* The task of a valid Limit order whose queries succeeded responds.
ValidLimitResponds(i) ==
    /\ Responds(i)
    /\ i \in LimitTasks
    /\ tasks[i].new_order.price > 0
    /\ tasks'[i].result # "DbError"

PersistedOpen(i) ==
    /\ tasks[i].new_order.id \in DOMAIN db_orders'
    /\ db_orders'[tasks[i].new_order.id] =
          [tasks[i].new_order EXCEPT !.order_state = "Open"]

C34_ReturnedOrderIsPersistedOrder ==
    [][\A i \in NewOrderTasks :
          (Responds(i) /\ tasks'[i].result = "Ok") =>
              /\ tasks'[i].order.id = tasks[i].new_order.id
              /\ tasks'[i].order.order_state
                    = db_orders'[tasks[i].new_order.id].order_state]_vars

\* The order states a finished task must have written, given its result.
WritesComplete(i) ==
    CASE tasks[i].result = "Ok" /\ tasks[i].new_order.order_type = "Market" ->
            /\ Len(tasks[i].writes) = Len(tasks[i].match_params)
            /\ Len(tasks[i].notified) = Len(tasks[i].match_params)
            /\ \A k \in DOMAIN tasks[i].writes :
                  /\ tasks[i].writes[k].order_id
                        = tasks[i].match_params[k].filled_with.order_id
                  /\ db_orders[tasks[i].writes[k].order_id].order_state # "Open"
      [] tasks[i].result \in {"NoMatchFound", "MatchError"} ->
            /\ tasks[i].writes = <<[order_id |-> tasks[i].order.id,
                                    order_state |-> "Failed"]>>
            /\ tasks[i].notified = <<>>
      [] tasks[i].result = "DbError" -> TRUE
      [] OTHER -> tasks[i].writes = <<>> /\ tasks[i].notified = <<>>

\* Indices of the tasks a run can spawn.
TaskIds == 1..(MaxUsers + MaxOrders)

\* C35: a task spawned for a NewOrder item sends exactly one result on the
\* item's response channel, after all its persistence writes and
\* notification attempts, and it does send it unless a notification send is
\* held by a full channel for ever; whether the submitter still holds the
\* receiver changes neither what was persisted nor the state of the loop.
C35_OneResponseAfterAllWrites ==
    /\ [](\A i \in NewOrderTasks :
            /\ tasks[i].response # "None" <=> tasks[i].pc = "done"
            /\ tasks[i].response # "None" =>
                  /\ tasks[i].result # "None"
                  /\ WritesComplete(i))
    /\ [][\A i \in NewOrderTasks :
            /\ tasks[i].response # "None" => tasks'[i] = tasks[i]
            /\ Responds(i) => (loop' = loop /\ queue' = queue
                                /\ authenticated_users' = authenticated_users)]_vars
    /\ \A i \in TaskIds :
          \/ []((i \in NewOrderTasks)
                    => <>(i \in NewOrderTasks /\ tasks[i].response # "None"))
          \/ <>[](i \in NewOrderTasks /\ HeldByFullChannel(i))

\* A matched Market order whose submitter had dropped the response channel:
\* both orders are written and the loop is still running.
C35_Witness ==
    \E i \in MarketTasks :
        /\ tasks[i].response = "ReceiverDropped"
        /\ tasks[i].result = "Ok"
        /\ Len(tasks[i].writes) = 2
        /\ db_orders[tasks[i].order.id].order_state = "Matched"
        /\ loop = "running"

\* C36: when the submitter of a Market order receives an error, the item
\* has sent no match notification to any trader and has moved no order to
\* Matched or Taken, also when the error is a persistence failure in the
\* middle of the per-trader loop.
C36_ErrorMeansNoEffect ==
    \A i \in MarketTasks :
        (tasks[i].pc = "done" /\ tasks[i].result # "Ok") =>
            /\ \A k \in DOMAIN tasks[i].notified : tasks[i].notified[k].outcome # "Sent"
            /\ \A k \in DOMAIN tasks[i].writes :
                  tasks[i].writes[k].order_state \notin {"Matched", "Taken"}

\* C37: the taker and the maker of every match are different traders: a
\* Market order is never matched against a Limit order of its own trader.
C37_TakerAndMakerDiffer ==
    \A i \in MarketTasks :
        \A k \in DOMAIN tasks[i].match_params :
            k > 1 => tasks[i].match_params[k].trader_id
                        # tasks[i].match_params[1].trader_id

\* The Limit order holds Match rows against an order that no task of this
\* run has handled: it was the maker of a match made before the restart.
MatchedBeforeRestart(id) ==
    /\ db_orders[id].order_type = "Limit"
    /\ \E k \in DOMAIN db_matches :
          /\ db_matches[k].order_id = id
          /\ \A i \in DOMAIN tasks : tasks[i].new_order.id # db_matches[k].match_order_id

\* The Limit orders that were the maker of a successful match: one whose
\* item completed with Ok, or one made before the restart.
MatchedMakers ==
    {id \in DOMAIN db_orders :
        \/ MatchedBeforeRestart(id)
        \/ \E i \in MarketTasks :
              /\ tasks[i].pc = "done"
              /\ tasks[i].result = "Ok"
              /\ id \in MakerIds(i)}

\* The step is task j's fetch of the candidates and its run of match_order.
Fetches(j) == tasks[j].pc = "fetch" /\ tasks'[j].match_result # "NotRun"

\* C38: after a successful match the maker's Limit order is not Open, is
\* not among the candidates a Market order fetches from then on and is not
\* matched again by such an order, whatever the maker's quantity was: no
\* remainder of it is left resting.
C38_MatchedMakerLeavesTheBook ==
    /\ [](\A id \in MatchedMakers :
            /\ db_orders[id].order_state # "Open"
            /\ \A j \in MarketTasks :
                  tasks[j].pc = "fetch" => id \notin CandidateIds(j))
    /\ [][\A j \in MarketTasks :
            Fetches(j) =>
                \A k \in DOMAIN tasks'[j].match_params :
                    tasks'[j].match_params[k].filled_with.order_id
                        \notin MatchedMakers]_vars

\* A maker of quantity 2 was matched by a taker of quantity 1; a Market
\* order of another trader in the taker's direction, processed afterwards
\* with no expiry passed, found no match.
C38_Witness ==
    \E id \in MatchedMakers : \E j \in MarketTasks : \E k \in DOMAIN db_matches :
        /\ db_matches[k].order_id = id
        /\ db_orders[id].quantity > db_matches[k].quantity
        /\ db_orders[id].order_state = "Matched"
        /\ tasks[j].order.direction = opposite(db_orders[id].direction)
        /\ tasks[j].order.trader_id # db_matches[k].trader_id
        /\ tasks[j].pc = "done"
        /\ tasks[j].match_result = "None"
        /\ expired = {}

-----------------------------------------------------------------------------
(* Specifications of the pure functions: the inputs are drawn in Init, the *)
(* actions apply match_order and sort_orders to them.                      *)

Prices == {1, 2}
Quantities == {1, 2}
Timestamps == {0, 1}

\* A resting Limit order as the tests build it (dummy_long_order), with the
\* direction left free; its id is its position in the candidate list.
CandidateShapes ==
    [direction : Directions, price : Prices, quantity : Quantities,
     timestamp : Timestamps]

candidate(i, shape) ==
    Order(i, "bob", shape.direction, "Limit", shape.price, shape.quantity,
          shape.timestamp, "Open", "Manual")

TakerOrders ==
    {Order(0, "alice", d, t, 0, q, 1, "Open", "Manual") :
        d \in Directions, t \in OrderTypes, q \in Quantities}

NoResult == [tag |-> "NotRun", value |-> <<>>]

InitMatch ==
    /\ m_phase = "input"
    /\ m_order \in TakerOrders
    /\ \E n \in 0..MaxCandidates :
         \E shapes \in [1..n -> CandidateShapes] :
            m_candidates = [i \in 1..n |-> candidate(i, shapes[i])]
    /\ m_is_long = FALSE
    /\ m_result = NoResult
    /\ m_sorted = <<>>
    /\ EngineInit(<<>>)

RunMatchOrder ==
    /\ m_phase = "input"
    /\ m_phase' = "matched"
    /\ m_result' = match_order(m_order, m_candidates)
    /\ UNCHANGED <<m_order, m_candidates, m_is_long, m_sorted, e_vars>>

NextMatch == RunMatchOrder

SpecMatch == InitMatch /\ [][NextMatch]_vars

\* sort_orders on lists of dummy_long_order orders (Long, default quantity).
SortShapes == [price : 1..MaxSortPrice, timestamp : 0..MaxSortTimestamp]

InitSort ==
    /\ m_phase = "input"
    /\ m_order = Order(0, "alice", "Short", "Market", 0, 1, 0, "Open", "Manual")
    /\ \E n \in 0..MaxSortLen :
         \E shapes \in [1..n -> SortShapes] :
            m_candidates =
                [i \in 1..n |-> Order(i, "bob", "Long", "Limit", shapes[i].price, 0,
                                      shapes[i].timestamp, "Open", "Manual")]
    /\ m_is_long = FALSE
    /\ m_result = NoResult
    /\ m_sorted = <<>>
    /\ EngineInit(<<>>)

RunSortOrders ==
    /\ m_phase = "input"
    /\ \E is_long \in BOOLEAN :
         /\ m_is_long' = is_long
         /\ m_sorted' = sort_orders(m_candidates, is_long)
    /\ m_phase' = "sorted"
    /\ UNCHANGED <<m_order, m_candidates, m_result, e_vars>>

NextSort == RunSortOrders

SpecSort == InitSort /\ [][NextSort]_vars

\* The orders of the test given_limit_and_market_with_same_amount_then_match:
\* a Short Market taker of quantity 100 and four resting Long Limit orders,
\* handed over in any order and with any submission timestamps.
ExampleShapes ==
    <<[price |-> 20000, quantity |-> 100], [price |-> 21000, quantity |-> 200],
      [price |-> 20000, quantity |-> 300], [price |-> 22000, quantity |-> 400]>>

Arrangements(n) == {p \in [1..n -> 1..n] : \A i, j \in 1..n : p[i] = p[j] => i = j}

InitExample ==
    /\ m_phase = "input"
    /\ m_order = Order(0, "alice", "Short", "Market", 0, 100, 1, "Open", "Manual")
    /\ \E p \in Arrangements(Len(ExampleShapes)) :
         \E ts \in [DOMAIN ExampleShapes -> Timestamps] :
            m_candidates =
                [i \in DOMAIN ExampleShapes |->
                    Order(i, "bob", "Long", "Limit", ExampleShapes[p[i]].price,
                          ExampleShapes[p[i]].quantity, ts[i], "Open", "Manual")]
    /\ m_is_long = FALSE
    /\ m_result = NoResult
    /\ m_sorted = <<>>
    /\ EngineInit(<<>>)

NextExample == RunMatchOrder

SpecExample == InitExample /\ [][NextExample]_vars

-----------------------------------------------------------------------------
(* Claims about match_order and sort_orders *)

\* The candidate orders a taker can be matched with, and the maker orders of
\* a returned MatchParams.
OppositeCandidates ==
    {i \in DOMAIN m_candidates : m_candidates[i].direction # m_order.direction}

Returned == m_result.value[1]

MakerOrders ==
    [i \in DOMAIN Returned.makers_matches |->
        m_candidates[Returned.makers_matches[i].filled_with.order_id]]

\* Candidate i precedes candidate j in price/time priority for the taker
\* (equal price and timestamp: the order in which they were handed over).
Precedes(i, j) ==
    LET a == m_candidates[i]
        b == m_candidates[j]
    IN  \/ (m_order.direction = "Long" /\ a.price < b.price)
        \/ (m_order.direction = "Short" /\ a.price > b.price)
        \/ (a.price = b.price /\ a.timestamp < b.timestamp)
        \/ (a.price = b.price /\ a.timestamp = b.timestamp /\ i < j)

FirstCandidate ==
    CHOOSE i \in OppositeCandidates :
        \A j \in OppositeCandidates \ {i} : Precedes(i, j)

\* C4: match_order returns a MatchParams only when the taker is filled by
\* exactly one maker whose resting quantity is at least the taker's quantity.
C4_SomeOnlyIfOneCoveringMaker ==
    (m_phase = "matched" /\ m_result.tag = "Some") =>
        /\ Len(MakerOrders) = 1
        /\ MakerOrders[1].quantity >= m_order.quantity

\* C5: when the first candidate in price/time priority has less quantity
\* than a Market taker and a further opposite-direction candidate exists,
\* match_order returns an error; no returned MatchParams has more than one
\* maker or a Match of less than the taker's quantity.
C5_Precondition ==
    /\ m_phase = "matched"
    /\ m_order.order_type = "Market"
    /\ Cardinality(OppositeCandidates) >= 2
    /\ m_candidates[FirstCandidate].quantity < m_order.quantity

C5_MultiMakerIsError ==
    /\ C5_Precondition => m_result.tag = "Err"
    /\ (m_phase = "matched" /\ m_result.tag = "Some") =>
          /\ Len(Returned.makers_matches) = 1
          /\ \A i \in DOMAIN Returned.taker_match.filled_with.matches :
                Returned.taker_match.filled_with.matches[i].quantity = m_order.quantity

C5_Witness == C5_Precondition /\ m_result.tag = "Err" /\ Len(m_candidates) = 3

C7_SortOrdersSorted ==
    m_phase = "sorted" =>
        /\ Len(m_sorted) = Len(m_candidates)
        /\ \A i \in DOMAIN m_candidates :
              \E j \in DOMAIN m_sorted : m_sorted[j] = m_candidates[i]
        /\ \A i \in 1..(Len(m_sorted) - 1) :
              IF m_is_long
              THEN m_sorted[i].price <= m_sorted[i + 1].price
              ELSE m_sorted[i].price >= m_sorted[i + 1].price
        /\ \A i, j \in DOMAIN m_sorted :
              (i < j /\ m_sorted[i].price = m_sorted[j].price) =>
                  m_sorted[i].timestamp <= m_sorted[j].timestamp

C7_Witness ==
    /\ m_phase = "sorted"
    /\ ~m_is_long
    /\ Len(m_sorted) = 3
    /\ m_sorted # m_candidates
    /\ m_sorted[1].price > m_sorted[2].price
    /\ m_sorted[2].price = m_sorted[3].price
    /\ m_sorted[2].timestamp < m_sorted[3].timestamp

\* C8: a Market taker handed only candidates of its own direction gets
\* Ok(None), whatever their quantities and prices.
C8_Precondition ==
    /\ m_phase = "matched"
    /\ m_order.order_type = "Market"
    /\ \A i \in DOMAIN m_candidates : m_candidates[i].direction = m_order.direction

C8_SameDirectionIsNone == C8_Precondition => m_result = ResultNone

C8_Witness ==
    /\ C8_Precondition
    /\ Len(m_candidates) >= 2
    /\ \E i \in DOMAIN m_candidates : m_candidates[i].quantity >= m_order.quantity
    /\ m_result.tag = "None"

\* The maker order of the returned MatchParams.
Maker == MakerOrders[1]

CoveringCandidate ==
    \E j \in OppositeCandidates : m_candidates[j].quantity >= m_order.quantity

\* C27: for a Limit taker match_order returns Ok(None) whatever the
\* candidates are.
C27_LimitTakerIsNone ==
    (m_phase = "matched" /\ m_order.order_type = "Limit") => m_result.tag = "None"

C27_Witness ==
    /\ m_phase = "matched"
    /\ m_order.order_type = "Limit"
    /\ CoveringCandidate
    /\ m_result.tag = "None"

TakerFilledWith == Returned.taker_match.filled_with

MakerFilledWith == Returned.makers_matches[1].filled_with

\* C28: in a returned MatchParams every Match has the taker's quantity and
\* the maker's price; the taker's FilledWith has the taker's order id and its
\* Match names the maker's order and trader; the maker's FilledWith has the
\* maker's order id and its Match names the taker's order and trader; both
\* carry the same expiry timestamp and oracle.
C28_MatchFields ==
    (m_phase = "matched" /\ m_result.tag = "Some") =>
        /\ Returned.taker_match.trader_id = m_order.trader_id
        /\ TakerFilledWith.order_id = m_order.id
        /\ TakerFilledWith.matches =
              <<Match(Maker.id, m_order.quantity, Maker.trader_id, Maker.price)>>
        /\ Returned.makers_matches[1].trader_id = Maker.trader_id
        /\ MakerFilledWith.order_id = Maker.id
        /\ MakerFilledWith.matches =
              <<Match(m_order.id, m_order.quantity, m_order.trader_id, Maker.price)>>
        /\ TakerFilledWith.expiry_timestamp = MakerFilledWith.expiry_timestamp
        /\ TakerFilledWith.oracle_pk = MakerFilledWith.oracle_pk

C28_Witness ==
    /\ m_phase = "matched"
    /\ m_result.tag = "Some"
    /\ Maker.quantity # m_order.quantity
    /\ Maker.price = 2
    /\ MakerFilledWith.matches[1].execution_price = 2

RECURSIVE SumOfQuantities(_)
SumOfQuantities(matches) ==
    IF matches = <<>> THEN 0
    ELSE Head(matches).quantity + SumOfQuantities(Tail(matches))

\* C29: a returned MatchParams has one TraderMatchParams for the taker and
\* exactly one for a maker, and the quantities of the taker's Matches sum to
\* the taker's quantity.
C29_MatchParamsShape ==
    (m_phase = "matched" /\ m_result.tag = "Some") =>
        /\ Len(matches_of(Returned)) = 2
        /\ matches_of(Returned)[1] = Returned.taker_match
        /\ Len(Returned.makers_matches) = 1
        /\ SumOfQuantities(TakerFilledWith.matches) = m_order.quantity

C29_Witness ==
    /\ m_phase = "matched"
    /\ m_result.tag = "Some"
    /\ m_order.quantity = 2
    /\ Maker.quantity = 1
    /\ SumOfQuantities(TakerFilledWith.matches) = 2

====
